---------------------------- MODULE Spec2Model ----------------------------
(***************************************************************************)
(* The chaos loop of integration_test/scripts/chaos_monkey.py: main() and  *)
(* the __main__ block that calls it.                                       *)
(*                                                                         *)
(* One process, one thread.  pc is the position of that thread:            *)
(*   "branch"     line 26, available_services of this iteration computed   *)
(*   "call_start" inside subprocess.call([.. 'start', service]), line 30   *)
(*   "call_stop"  inside subprocess.call([.. 'stop', service]), line 39    *)
(*   "print"      line 44, the if print_ps                                 *)
(*   "call_ps"    inside subprocess.call([.. 'ps']), line 46               *)
(*   "sleep"      inside time.sleep(sleep_time), line 53                   *)
(*   "exited"     KeyboardInterrupt caught at line 73, process ended       *)
(*   "crashed"    an exception other than KeyboardInterrupt left main()    *)
(*                                                                         *)
(* random.random() returns a float of [0,1).  A draw d of Draws stands for *)
(* the float d/Scale, a chance c of ChanceValues for the float c/Scale, so *)
(* c = 0 is the chance 0.0, c = Scale the chance 1.0, and c = -1 and       *)
(* c = Scale + 1 are chances outside [0,1] (argparse's type=float takes    *)
(* them as they are).                                                      *)
(***************************************************************************)
EXTENDS Integers, Sequences, FiniteSets, TLC

\* ALL_SERVICES, line 13: the default of --services
ALL_SERVICES == {"node1", "node2", "node3"}

\* granularity of the draws and the chances
Scale == 2

\* the iteration counter stops counting here (the loop itself goes on)
MaxIter == 4

Draws == 0..(Scale - 1)

ChanceValues == (-1)..(Scale + 1)

\* start_draw / stop_draw when random.random() was not called
NoDraw == -1

VARIABLES
    services,            \* argument of main, never assigned
    stopping_chance,     \* argument of main, never assigned
    starting_chance,     \* argument of main, never assigned
    stopped_services,    \* line 22
    available_services,  \* line 25
    print_ps,            \* line 23
    service,             \* lines 27, 36: the service picked last
    pc,
    \* the world outside the process
    running,             \* the services that are really running
    \* history, read by the properties only
    iteration,           \* number of the current iteration, from 1, capped
    stopped_before,      \* stopped_services when this iteration began
    start_draw,          \* the draw of line 26 in this iteration, or NoDraw
    stop_draw,           \* the draw of line 35 in this iteration, or NoDraw
    issued,              \* the commands issued in this iteration, in order
    results,             \* how each of them ended: "ok", "nonzero", "oserror", "interrupted"
    logged_sleeping,     \* line 52 ran in this iteration
    failed,              \* some start or stop command so far did not do its work
    interrupted_at,      \* where the thread was when KeyboardInterrupt was raised, or ""
    last_command         \* per service, the last start or stop command issued for it, or "none"

vars == <<services, stopping_chance, starting_chance, stopped_services,
          available_services, print_ps, service, pc, running, iteration,
          stopped_before, start_draw, stop_draw, issued, results,
          logged_sleeping, failed, interrupted_at, last_command>>

config == <<services, stopping_chance, starting_chance, interrupted_at>>

Running == {"branch", "call_start", "call_stop", "print", "call_ps", "sleep"}

Ended == {"exited", "crashed"}

Command(op, svc) == [op |-> op, svc |-> svc]

\* line 25 without the subtraction
AvailableServicesAll(svcs, stopped) == svcs

\* line 25
AvailableServices(svcs, stopped) == svcs \ stopped

\* the comparison of lines 26 and 35 turned round
BelowFlipped(draw, chance) == draw > chance

\* the comparison of lines 26 and 35 with <= for <
BelowOrEqual(draw, chance) == draw <= chance

\* the chance of lines 26 and 35 wrapped into [0,1) before the comparison
BelowWrapped(draw, chance) == draw < chance % Scale

\* lines 26 and 35: random.random() < chance
Below(draw, chance) == draw < chance

\* line 26: random.random() is called only when stopped_services is true
StartDraws(stopped) == IF stopped # {} THEN Draws ELSE {NoDraw}

\* line 26 without the draw: a stopped service is started at once
StartConditionNoDraw(stopped, draw, chance) == stopped # {}

\* line 26 comparing the draw with stopping_chance
StartConditionWrongChance(stopped, draw, chance) ==
    stopped # {} /\ draw # NoDraw /\ draw < stopping_chance

\* line 26, the whole condition
StartCondition(stopped, draw, chance) ==
    stopped # {} /\ draw # NoDraw /\ Below(draw, chance)

\* line 35 as an if: tried whatever line 26 did
ElseBranchAlways(stopped, draw, chance) == TRUE

\* line 35 reached only when no service is stopped
ElseBranchNoneStopped(stopped, draw, chance) == stopped = {}

\* line 35, the elif: reached only when the condition of line 26 was false
ElseBranch(stopped, draw, chance) == ~StartCondition(stopped, draw, chance)

\* line 35: reached only when line 26 was false; random.random() is called
\* only when available_services is true
StopDraws(available) == IF available # {} THEN Draws ELSE {NoDraw}

StopCondition(available, draw, chance) ==
    available # {} /\ draw # NoDraw /\ Below(draw, chance)

\* line 27 choosing among services instead of stopped_services
StartChoicesAny(stopped) == services

\* line 27: random.choice(list(stopped_services))
StartChoices(stopped) == stopped

\* line 36 choosing among ALL_SERVICES instead of available_services
StopChoicesAll(available) == ALL_SERVICES

\* line 36: random.choice(list(available_services))
StopChoices(available) == available

\* line 28 left out
RemoveNothing(stopped, svc) == stopped

\* line 28: stopped_services.remove(service)
Remove(stopped, svc) == stopped \ {svc}

\* line 37 left out
AddNothing(stopped, svc) == stopped

\* line 37: stopped_services.add(service)
Add(stopped, svc) == stopped \cup {svc}

\* line 23 with False
InitialPrintPsFalse == FALSE

\* line 23
InitialPrintPs == TRUE

\* what subprocess.call can do when it returns or raises by itself:
\* exit status 0, another exit status, or OSError (the program cannot be
\* launched: docker-compose not installed, ROOT_DIR missing)
Outcomes == {"ok", "nonzero", "oserror"}

\* lines 17, 22, 23 and the first pass through lines 24-25.
\* --services is split(',') of a string, so it is never the empty set.
Init ==
    /\ services \in (SUBSET ALL_SERVICES) \ {{}}
    /\ stopping_chance \in ChanceValues
    /\ starting_chance \in ChanceValues
    /\ stopped_services = {}
    /\ print_ps = InitialPrintPs
    /\ available_services = AvailableServices(services, {})
    /\ service = ""
    /\ pc = "branch"
    /\ running = services
    /\ iteration = 1
    /\ stopped_before = {}
    /\ start_draw = NoDraw
    /\ stop_draw = NoDraw
    /\ issued = <<>>
    /\ results = <<>>
    /\ logged_sleeping = FALSE
    /\ failed = FALSE
    /\ interrupted_at = ""
    /\ last_command = [s \in ALL_SERVICES |-> "none"]

\* lines 26-29: the start branch, up to the call
StartService ==
    /\ pc = "branch"
    /\ \E d \in StartDraws(stopped_services) :
         /\ StartCondition(stopped_services, d, starting_chance)
         /\ start_draw' = d
    /\ \E s \in StartChoices(stopped_services) :
         /\ service' = s
         /\ stopped_services' = Remove(stopped_services, s)
         /\ issued' = Append(issued, Command("start", s))
         /\ last_command' = [last_command EXCEPT ![s] = "start"]
    /\ pc' = "call_start"
    /\ UNCHANGED <<config, available_services, print_ps, running, iteration,
                   stopped_before, stop_draw, results, logged_sleeping, failed>>

\* lines 35-38: the stop branch, up to the call
StopService ==
    /\ pc = "branch"
    /\ \E d \in StartDraws(stopped_services) :
         /\ ElseBranch(stopped_services, d, starting_chance)
         /\ start_draw' = d
    /\ \E d \in StopDraws(available_services) :
         /\ StopCondition(available_services, d, stopping_chance)
         /\ stop_draw' = d
    /\ \E s \in StopChoices(available_services) :
         /\ service' = s
         /\ stopped_services' = Add(stopped_services, s)
         /\ issued' = Append(issued, Command("stop", s))
         /\ last_command' = [last_command EXCEPT ![s] = "stop"]
    /\ pc' = "call_stop"
    /\ UNCHANGED <<config, available_services, print_ps, running, iteration,
                   stopped_before, results, logged_sleeping, failed>>

\* lines 26 and 35 both false
NoAction ==
    /\ pc = "branch"
    /\ \E d \in StartDraws(stopped_services) :
         /\ ElseBranch(stopped_services, d, starting_chance)
         /\ start_draw' = d
    /\ \E d \in StopDraws(available_services) :
         /\ ~StopCondition(available_services, d, stopping_chance)
         /\ stop_draw' = d
    /\ pc' = "print"
    /\ UNCHANGED <<config, last_command, stopped_services, available_services, print_ps,
                   service, running, iteration, stopped_before, issued,
                   results, logged_sleeping, failed>>

\* every exception of subprocess.call swallowed
AfterCallSwallow(o, next) == next

\* where the thread goes when subprocess.call ends with outcome o: an
\* OSError is no KeyboardInterrupt, so line 73 does not catch it
AfterCall(o, next) == IF o = "oserror" THEN "crashed" ELSE next

\* lines 30-34: subprocess.call returns or raises; the exit status is dropped.
\* Outside the process the command does its work exactly when it exits 0.
CallStart ==
    /\ pc = "call_start"
    /\ \E o \in Outcomes :
         /\ results' = Append(results, o)
         /\ running' = IF o = "ok" THEN running \cup {service} ELSE running
         /\ failed' = (failed \/ o # "ok")
         /\ print_ps' = IF o = "oserror" THEN print_ps ELSE TRUE
         /\ pc' = AfterCall(o, "print")
    /\ UNCHANGED <<config, last_command, stopped_services, available_services, service,
                   iteration, stopped_before, start_draw, stop_draw, issued,
                   logged_sleeping>>

\* lines 39-43
CallStop ==
    /\ pc = "call_stop"
    /\ \E o \in Outcomes :
         /\ results' = Append(results, o)
         /\ running' = IF o = "ok" THEN running \ {service} ELSE running
         /\ failed' = (failed \/ o # "ok")
         /\ print_ps' = IF o = "oserror" THEN print_ps ELSE TRUE
         /\ pc' = AfterCall(o, "print")
    /\ UNCHANGED <<config, last_command, stopped_services, available_services, service,
                   iteration, stopped_before, start_draw, stop_draw, issued,
                   logged_sleeping>>

\* lines 44-46: print_ps is true, the ps command is issued
PrintStatus ==
    /\ pc = "print"
    /\ print_ps
    /\ issued' = Append(issued, Command("ps", ""))
    /\ pc' = "call_ps"
    /\ UNCHANGED <<config, last_command, stopped_services, available_services, print_ps,
                   service, running, iteration, stopped_before, start_draw,
                   stop_draw, results, logged_sleeping, failed>>

\* lines 51-52: print_ps is false
LogSleeping ==
    /\ pc = "print"
    /\ ~print_ps
    /\ logged_sleeping' = TRUE
    /\ pc' = "sleep"
    /\ UNCHANGED <<config, last_command, stopped_services, available_services, print_ps,
                   service, running, iteration, stopped_before, start_draw,
                   stop_draw, issued, results, failed>>

\* lines 46-50: the ps call returns or raises
CallPs ==
    /\ pc = "call_ps"
    /\ \E o \in Outcomes :
         /\ results' = Append(results, o)
         /\ print_ps' = IF o = "oserror" THEN print_ps ELSE FALSE
         /\ pc' = AfterCall(o, "sleep")
    /\ UNCHANGED <<config, last_command, stopped_services, available_services, service,
                   running, iteration, stopped_before, start_draw, stop_draw,
                   issued, logged_sleeping, failed>>

NextIteration(n) == IF n < MaxIter THEN n + 1 ELSE n

\* line 24 as "while services - stopped_services": the loop is left when
\* every service is stopped
SleepWhileAvailable ==
    /\ pc = "sleep"
    /\ AvailableServices(services, stopped_services) # {}
    /\ available_services' = AvailableServices(services, stopped_services)
    /\ iteration' = NextIteration(iteration)
    /\ stopped_before' = stopped_services
    /\ start_draw' = NoDraw
    /\ stop_draw' = NoDraw
    /\ issued' = <<>>
    /\ results' = <<>>
    /\ logged_sleeping' = FALSE
    /\ pc' = "branch"
    /\ UNCHANGED <<config, last_command, stopped_services, print_ps, service,
                   running, failed>>

\* line 53, then lines 24-25 of the next iteration
Sleep ==
    /\ pc = "sleep"
    /\ available_services' = AvailableServices(services, stopped_services)
    /\ iteration' = NextIteration(iteration)
    /\ stopped_before' = stopped_services
    /\ start_draw' = NoDraw
    /\ stop_draw' = NoDraw
    /\ issued' = <<>>
    /\ results' = <<>>
    /\ logged_sleeping' = FALSE
    /\ pc' = "branch"
    /\ UNCHANGED <<config, last_command, stopped_services, print_ps, service, running, failed>>

\* an except clause that starts a stopped service before the process ends
KeyboardInterruptCleanup ==
    /\ pc \in Running
    /\ pc' = "exited"
    /\ interrupted_at' = pc
    /\ IF stopped_services # {}
         THEN \E s \in stopped_services :
                /\ issued' = Append(issued, Command("start", s))
                /\ stopped_services' = stopped_services \ {s}
         ELSE UNCHANGED <<issued, stopped_services>>
    /\ UNCHANGED <<services, stopping_chance, starting_chance, last_command,
                   available_services, print_ps, service, running, iteration,
                   stopped_before, start_draw, stop_draw, results,
                   logged_sleeping, failed>>

\* lines 68-74: SIGINT raises KeyboardInterrupt in the main thread wherever
\* it is; the except clause swallows it and the process ends.  A command
\* that was running may or may not have done its work.
KeyboardInterrupt ==
    /\ pc \in Running
    /\ pc' = "exited"
    /\ interrupted_at' = pc
    /\ IF pc \in {"call_start", "call_stop", "call_ps"}
         THEN results' = Append(results, "interrupted")
         ELSE results' = results
    /\ \/ /\ pc = "call_start"
          /\ \E done \in BOOLEAN :
               /\ running' = IF done THEN running \cup {service} ELSE running
               /\ failed' = (failed \/ ~done)
       \/ /\ pc = "call_stop"
          /\ \E done \in BOOLEAN :
               /\ running' = IF done THEN running \ {service} ELSE running
               /\ failed' = (failed \/ ~done)
       \/ /\ pc \notin {"call_start", "call_stop"}
          /\ UNCHANGED <<running, failed>>
    /\ UNCHANGED <<services, stopping_chance, starting_chance, last_command,
                   stopped_services, available_services, print_ps, service,
                   iteration, stopped_before, start_draw, stop_draw, issued,
                   logged_sleeping>>

\* the steps of the program itself
Iterate ==
    \/ StartService
    \/ StopService
    \/ NoAction
    \/ CallStart
    \/ CallStop
    \/ PrintStatus
    \/ LogSleeping
    \/ CallPs
    \/ Sleep

Next == Iterate \/ KeyboardInterrupt

Spec == Init /\ [][Next]_vars

\* the thread is never stuck in a statement for ever: every command and
\* every sleep comes back
FairSpec == Spec /\ WF_vars(Iterate)

TypeOK ==
    /\ services \in (SUBSET ALL_SERVICES) \ {{}}
    /\ stopping_chance \in ChanceValues
    /\ starting_chance \in ChanceValues
    /\ stopped_services \in SUBSET ALL_SERVICES
    /\ available_services \in SUBSET ALL_SERVICES
    /\ print_ps \in BOOLEAN
    /\ pc \in Running \cup Ended
    /\ running \in SUBSET ALL_SERVICES
    /\ iteration \in 1..MaxIter
    /\ Len(issued) <= 2
    /\ Len(results) <= Len(issued)
    /\ interrupted_at \in Running \cup {""}
    /\ last_command \in [ALL_SERVICES -> {"none", "start", "stop"}]


-----------------------------------------------------------------------------
\* Vocabulary of the properties

\* the number of commands op issued so far in the current iteration
NumOp(op) == Cardinality({i \in DOMAIN issued : issued[i].op = op})

NumStartStop == NumOp("start") + NumOp("stop")

\* the current iteration is past lines 26-43 (the decision is taken)
Decided == pc \in Running \ {"branch"}

\* the start draw of the current iteration was made and was below starting_chance
StartDrawSucceeded ==
    stopped_before # {} /\ start_draw # NoDraw /\ start_draw < starting_chance

\* the belief of the driver is the reality
BeliefIsReality == stopped_services = services \ running

\* the chance 1.0
One == Scale

-----------------------------------------------------------------------------
\* C1: in every reachable state stopped_services is a subset of services,
\* and every start or stop command issued names a member of services.
C1_StoppedWithinServices ==
    /\ stopped_services \subseteq services
    /\ \A i \in DOMAIN issued :
         issued[i].op \in {"start", "stop"} => issued[i].svc \in services

\* C1 witness: a second service is being stopped while one is stopped, in a
\* run whose service set is smaller than ALL_SERVICES.
C1_Witness ==
    /\ pc = "call_stop"
    /\ Cardinality(stopped_services) = 2
    /\ services # ALL_SERVICES

\* C2 as stated: with stopping-chance 1, whatever the starting-chance, every
\* iteration that begins with a non-empty available set issues exactly one
\* stop command.
C2_Original ==
    (stopping_chance = One /\ Decided /\ available_services # {})
        => NumOp("stop") = 1

\* C2 amended: with stopping-chance 1, every iteration that begins with a
\* non-empty available set issues exactly one start-or-stop command: a start
\* when its start draw succeeded on a non-empty stopped set, a stop otherwise.
C2_StopUnlessStarted ==
    (stopping_chance = One /\ Decided /\ available_services # {})
        => /\ NumStartStop = 1
           /\ NumOp("stop") = 1 <=> ~StartDrawSucceeded
           /\ NumOp("start") = 1 <=> StartDrawSucceeded

\* C2 witness: an iteration that began with a stopped service and an
\* available one, whose start draw failed, has stopped a second service.
C2_Witness ==
    /\ stopping_chance = One
    /\ pc = "sleep"
    /\ stopped_before # {}
    /\ start_draw # NoDraw
    /\ NumOp("stop") = 1
    /\ Cardinality(stopped_services) = 2

C4_Original ==
    pc = "sleep"
        => /\ NumOp("ps") = 1 <=> NumStartStop >= 1
           /\ NumOp("ps") = 1 => issued[Len(issued)].op = "ps"
           /\ NumStartStop = 0 => (logged_sleeping /\ NumOp("ps") = 0)

\* C4 amended: the first iteration always issues a ps command (print_ps
\* starts True) and never logs the sleeping message; in every later
\* iteration a ps command is issued if and only if a start or stop command
\* was issued in that iteration, and otherwise the sleeping message is
\* logged.  The ps command, when issued, is the last command of the
\* iteration, and there is at most one.
C4_StatusAfterActionOrFirst ==
    pc = "sleep"
        => /\ NumOp("ps") = 1 <=> (NumStartStop >= 1 \/ iteration = 1)
           /\ NumOp("ps") <= 1
           /\ NumOp("ps") = 1 => issued[Len(issued)].op = "ps"
           /\ logged_sleeping <=> NumOp("ps") = 0
           /\ ~print_ps

\* C4 witness: the first iteration took no action and issued ps all the same.
C4_Witness ==
    /\ pc = "sleep"
    /\ iteration = 1
    /\ NumStartStop = 0
    /\ NumOp("ps") = 1
    /\ ~logged_sleeping

\* the value stopped_services has after the decision of this iteration when
\* every command is taken to have worked
OptimisticStopped ==
    IF NumOp("start") = 1 THEN stopped_before \ {service}
    ELSE IF NumOp("stop") = 1 THEN stopped_before \cup {service}
    ELSE stopped_before

LastResult == results[Len(results)]

InCall == pc \in {"call_start", "call_stop", "call_ps"}

C6_Original ==
    pc = "exited" => interrupted_at = "branch"

\* C6 amended: an interrupt ends the process wherever the thread is, the
\* rest of the iteration under way is not run (a start or stop command may
\* be left without its status command, a sleep cut short).  The step that
\* handles the interrupt issues no command and leaves the stopped set as it
\* is, and after it nothing more is done: no command is issued, in
\* particular no start for the services still in the stopped set.
C6_InterruptAnywhereNoCleanup ==
    /\ [][ pc' = "exited" =>
             /\ pc \in Running
             /\ interrupted_at' = pc
             /\ issued' = issued
             /\ stopped_services' = stopped_services ]_vars
    /\ [](pc = "exited" => ~ENABLED Next)

\* C6 witness: the interrupt came during a stop command, the status command
\* of that iteration was never issued and a service is left stopped.
C6_Witness ==
    /\ pc = "exited"
    /\ interrupted_at = "call_stop"
    /\ NumOp("ps") = 0
    /\ stopped_services # {}
    /\ Cardinality(stopped_before) = 1

\* the services whose membership of the stopped set changed in this iteration
ChangedServices ==
    (stopped_services \ stopped_before) \cup (stopped_before \ stopped_services)

\* C7: each iteration issues at most one start-or-stop command, changes the
\* stopped set by at most one element, and when its start draw succeeds on
\* a non-empty stopped set the start is performed and no stop is attempted
\* (no stop draw, no stop command), even if the available set is non-empty.
C7_OneActionStartFirst ==
    /\ NumStartStop <= 1
    /\ Cardinality(ChangedServices) <= 1
    /\ (Decided /\ StartDrawSucceeded)
         => /\ NumOp("start") = 1
            /\ NumOp("stop") = 0
            /\ stop_draw = NoDraw
            /\ stopped_services = stopped_before \ {service}
            /\ service \in stopped_before

\* C7 witness: with stopping-chance 1 an iteration that began with a stopped
\* service and an available one has started a service and stopped none.
C7_Witness ==
    /\ pc = "sleep"
    /\ stopping_chance = One
    /\ available_services # {}
    /\ NumOp("start") = 1
    /\ NumOp("stop") = 0

\* C8: with stopping-chance 0 and starting-chance 0 no start and no stop
\* command is ever issued and the stopped set is empty in every state.
C8_ZeroChancesNothingHappens ==
    (stopping_chance = 0 /\ starting_chance = 0)
        => /\ NumStartStop = 0
           /\ stopped_services = {}
           /\ pc \notin {"call_start", "call_stop"}

\* C8 witness: with both chances 0 the loop is in its third iteration, has
\* made its stop draw and only logged the sleeping message.
C8_Witness ==
    /\ stopping_chance = 0
    /\ starting_chance = 0
    /\ iteration >= 3
    /\ pc = "sleep"
    /\ stop_draw # NoDraw
    /\ logged_sleeping

Complementary ==
    /\ available_services \cap stopped_services = {}
    /\ available_services \cup stopped_services = services

\* C9 as stated: the available set and the stopped set are complementary in
\* every reachable state, the states inside an iteration after the stopped
\* set was modified included.
C9_Original ==
    pc \in Running => Complementary

\* C9 amended: the available set is computed once, at the beginning of the
\* iteration, and the two sets are complementary from there until the
\* iteration modifies the stopped set; from the modification to the end of
\* the iteration the available set is stale (a stopped service is in both
\* sets, a started service in neither).  A started service is in the
\* available set of the next iteration and a stopped service is in the
\* stopped set, and not in the available set, of the next iteration.
C9_ComplementaryWhenComputed ==
    /\ [](pc \in Running =>
            /\ available_services = services \ stopped_before
            /\ stopped_services = stopped_before => Complementary
            /\ NumOp("stop") = 1
                 => service \in available_services \cap stopped_services
            /\ NumOp("start") = 1
                 => service \notin available_services \cup stopped_services)
    /\ [][ (pc = "sleep" /\ pc' = "branch") =>
             /\ Complementary'
             /\ NumOp("start") = 1 => service \in available_services'
             /\ NumOp("stop") = 1 => /\ service \in stopped_services'
                                     /\ service \notin available_services'
         ]_vars

\* C9 witness: an iteration begins with the service that the iteration
\* before started back in the available set, next to a stopped one.
C9_Witness ==
    /\ pc = "branch"
    /\ iteration >= 2
    /\ service \in available_services
    /\ service \notin stopped_services
    /\ stopped_services # {}

\* C10: next to the real state of the services (all running at first,
\* changed by the driver's commands only), the stopped set is updated
\* whatever the outcome of the command: as long as no start or stop command
\* has failed the stopped set is the set of really stopped services after
\* every iteration, and the first failure of a start or stop command makes
\* the two differ.
C10_BeliefTracksRealityUntilFailure ==
    /\ []((~failed /\ pc \in {"sleep", "branch"}) => BeliefIsReality)
    /\ [][ (~failed /\ failed') => ~BeliefIsReality' ]_vars
    /\ [][ (pc \in {"call_start", "call_stop"})
             => (stopped_services' = stopped_services) ]_vars

\* C10 witness: a stop command has exited non-zero, the iteration is over
\* and the driver holds a running service to be stopped.
C10_Witness ==
    /\ failed
    /\ pc = "sleep"
    /\ NumOp("stop") = 1
    /\ results[1] = "nonzero"
    /\ service \in stopped_services \cap running

\* C11: with starting-chance 0 and stopping-chance 1 no start command is
\* ever issued, the stopped set only grows, each of the first |services|
\* iterations stops one service (after iteration n, n services are
\* stopped), and every later iteration takes no action, issues no status
\* command and logs the sleeping message.
C11_StopAllThenSleep ==
    /\ []( (starting_chance = 0 /\ stopping_chance = One) =>
             /\ NumOp("start") = 0
             /\ \A s \in ALL_SERVICES : last_command[s] # "start"
             /\ (Decided /\ iteration <= Cardinality(services))
                  => /\ NumOp("stop") = 1
                     /\ Cardinality(stopped_services) = iteration
                     /\ ~logged_sleeping
             /\ (Decided /\ iteration > Cardinality(services))
                  => /\ NumStartStop = 0
                     /\ stopped_services = services
                     /\ NumOp("ps") = 0
                     /\ pc # "call_ps"
                     /\ pc = "sleep" => logged_sleeping )
    /\ [][ (starting_chance = 0 /\ stopping_chance = One)
             => stopped_services \subseteq stopped_services' ]_vars

\* C11 witness: services = {node1}, the second iteration has only logged the
\* sleeping message, node1 stopped by the first.
C11_Witness ==
    /\ starting_chance = 0
    /\ stopping_chance = One
    /\ services = {"node1"}
    /\ iteration = 2
    /\ pc = "sleep"
    /\ logged_sleeping
    /\ issued = <<>>
    /\ stopped_services = {"node1"}
    /\ last_command["node1"] = "stop"

Issues(op) ==
    /\ Len(issued') = Len(issued) + 1
    /\ issued'[Len(issued')].op = op

IssuedService == issued'[Len(issued')].svc

\* C13: a start command is issued only for a service that was in the stopped
\* set when the iteration began, a stop command only for a service that was
\* in the available set when the iteration began; so for each service the
\* commands alternate stop, start, stop, ..., the first being a stop.
C13_CommandsAlternate ==
    /\ [][ Issues("start") =>
             /\ IssuedService \in stopped_before
             /\ IssuedService \in stopped_services
             /\ last_command[IssuedService] = "stop"
             /\ last_command'[IssuedService] = "start" ]_vars
    /\ [][ Issues("stop") =>
             /\ IssuedService \in available_services
             /\ IssuedService \notin stopped_before
             /\ last_command[IssuedService] \in {"none", "start"}
             /\ last_command'[IssuedService] = "stop" ]_vars
    /\ [][ \A s \in ALL_SERVICES :
             last_command'[s] # last_command[s]
                => (Issues("start") \/ Issues("stop")) /\ IssuedService = s
         ]_vars

\* C13 witness: node1, the only service, is being stopped for the second
\* time: a stop, a start and a stop were issued for it.
C13_Witness ==
    /\ services = {"node1"}
    /\ iteration = 3
    /\ pc = "call_stop"
    /\ service = "node1"
    /\ last_command["node1"] = "stop"

\* C14: chances outside [0,1] are taken as they are and act as the nearest
\* bound.  starting-chance <= 0: no start command is ever issued;
\* starting-chance >= 1: a start is issued in every iteration that begins
\* with a non-empty stopped set; stopping-chance <= 0: no stop command is
\* ever issued; stopping-chance >= 1: a stop is issued in every iteration
\* that does not start a service and has a non-empty available set.
C14_OutOfRangeChancesSaturate ==
    /\ starting_chance <= 0
         => /\ NumOp("start") = 0
            /\ pc # "call_start"
            /\ \A s \in ALL_SERVICES : last_command[s] # "start"
    /\ (starting_chance >= One /\ Decided /\ stopped_before # {})
         => NumOp("start") = 1
    /\ stopping_chance <= 0
         => /\ NumOp("stop") = 0
            /\ pc # "call_stop"
            /\ stopped_services = {}
            /\ \A s \in ALL_SERVICES : last_command[s] = "none"
    /\ (stopping_chance >= One /\ Decided /\ NumOp("start") = 0
          /\ available_services # {})
         => NumOp("stop") = 1

\* C14 witness: both chances above 1; a service stopped by one iteration has
\* been started by the next.
C14_Witness ==
    /\ starting_chance > One
    /\ stopping_chance > One
    /\ pc = "sleep"
    /\ stopped_before # {}
    /\ NumOp("start") = 1
    /\ stopped_services = {}

\* C15: an iteration that begins with a stopped service and an available
\* one and whose start draw is not below starting-chance makes the stop draw
\* all the same and stops a service when that draw is below
\* stopping-chance; so with stopping-chance > 0 and starting-chance < 1 an
\* iteration with an available service can always stop one more, whatever
\* is stopped already, up to the state where every service is stopped.
C15_StopAfterFailedStartDraw ==
    /\ (Decided /\ stopped_before # {} /\ available_services # {}
          /\ start_draw # NoDraw /\ ~(start_draw < starting_chance))
         => /\ stop_draw # NoDraw
            /\ NumOp("stop") = 1 <=> stop_draw < stopping_chance
            /\ NumOp("stop") = 1
                 => stopped_services = stopped_before \cup {service}
    /\ (pc = "branch" /\ available_services # {}
          /\ stopping_chance > 0 /\ starting_chance < One)
         => ENABLED StopService

\* C15 witness: three services, chances strictly between 0 and 1, and an
\* iteration that began with two stopped services and made both draws has
\* stopped the third: every service is stopped at once.
C15_Witness ==
    /\ Cardinality(services) = 3
    /\ stopping_chance > 0
    /\ stopping_chance < One
    /\ starting_chance > 0
    /\ starting_chance < One
    /\ pc = "sleep"
    /\ Cardinality(stopped_before) = 2
    /\ start_draw # NoDraw
    /\ stop_draw # NoDraw
    /\ stopped_services = services

\* C16: with starting-chance 1, whatever the stopping-chance and the
\* service set, the stopped set never holds more than one service: a stop
\* happens only in an iteration that begins with an empty stopped set, and
\* the iteration after it starts the very service it stopped.
C16_AtMostOneStopped ==
    /\ []( starting_chance = One =>
             /\ Cardinality(stopped_services) <= 1
             /\ Cardinality(stopped_before) <= 1
             /\ NumOp("stop") = 1 => stopped_before = {}
             /\ (Decided /\ stopped_before # {})
                  => /\ issued[1] = Command("start", service)
                     /\ stopped_before = {service}
                     /\ stopped_services = {}
                     /\ stop_draw = NoDraw )
    /\ [][ (starting_chance = One /\ pc = "sleep" /\ pc' = "branch"
              /\ NumOp("stop") = 1)
             => (stopped_before' = {service} /\ service' = service
                   /\ available_services' = services \ {service}) ]_vars
    /\ []( (starting_chance = One /\ pc = "branch" /\ stopped_services # {})
             => (ENABLED StartService /\ ~ENABLED StopService
                   /\ ~ENABLED NoAction) )

\* C16 witness: with starting-chance 1, stopping-chance 1 and three
\* services, the fourth iteration is starting the one service that the
\* third stopped, while two services are available.
C16_Witness ==
    /\ starting_chance = One
    /\ stopping_chance = One
    /\ Cardinality(services) = 3
    /\ iteration = 4
    /\ pc = "call_start"
    /\ stopped_before = {service}
    /\ Cardinality(available_services) = 2

=============================================================================
